---- MODULE Spec2Model ----
(***************************************************************************)
(* StringStream (src/string_stream.rs): a UTF-8 decoder over a byte        *)
(* source, and the line reader next_line()/lines() built on it.            *)
(***************************************************************************)
EXTENDS Integers, Sequences, FiniteSets, TLC

VARIABLES
    src,      \* the bytes held by the byte source (fixed after construction)
    fails0,   \* positions at which the source was set up to fail one read
    pos,      \* cursor of self.bytes: number of bytes pulled so far
    fails,    \* positions whose read failure is still pending
    owner,    \* "stream": the StringStream is usable; "lines": moved into lines()
    pc,       \* "idle", or the position inside a running next_line()
    cur,      \* the operation that started the running next_line()
    from,     \* stream state when the running next_line() was entered
    buf,      \* next_line()'s local String buf, as a sequence of scalars
    trace,    \* the calls completed so far, with what each returned
    vec,      \* a Vec2d: [data, width, height]
    last,     \* the last Vec2d method called
    wide      \* the Vec2d was built and resized with widths >= 1 only

vars == <<src, fails0, pos, fails, owner, pc, cur, from, buf, trace, vec, last, wide>>

(* ---------------- Option values ---------------- *)
Some(x) == [some |-> TRUE, v |-> x]
None == [some |-> FALSE, v |-> 0]
NoLine == [some |-> FALSE, v |-> <<>>]

LF == 10
CR == 13

(* ---------------- u8 / u32 bit operations ---------------- *)
RECURSIVE BitAnd(_, _)
BitAnd(a, b) ==
    IF a = 0 \/ b = 0 THEN 0
    ELSE (a % 2) * (b % 2) + 2 * BitAnd(a \div 2, b \div 2)

RECURSIVE BitOr(_, _)
BitOr(a, b) ==
    IF a = 0 THEN b
    ELSE IF b = 0 THEN a
    ELSE (IF a % 2 = 1 \/ b % 2 = 1 THEN 1 ELSE 0) + 2 * BitOr(a \div 2, b \div 2)

\* (x as u32) << n with x a u8 and n <= 18: below 2^26, so u32 never wraps.
Shl(x, n) == x * (2 ^ n)

HiMask == <<0, 128, 192, 224, 240, 248, 252, 254, 255>>
LoMask == <<0, 1, 3, 7, 15, 31, 63, 127, 255>>

hi(byte, bits) == BitAnd(byte, HiMask[bits + 1])

lo(byte, bits) == BitAnd(byte, LoMask[bits + 1])

is_ascii(byte) == hi(byte, 1) = 0

starts_with_10(byte) == hi(byte, 2) = 128

is_two_bytes(first, second) == hi(first, 3) = 192 /\ starts_with_10(second)

is_three_bytes(first, second, third) ==
    hi(first, 4) = 224 /\ starts_with_10(second) /\ starts_with_10(third)

is_four_bytes(first, second, third, fourth) ==
    /\ hi(first, 5) = 240
    /\ starts_with_10(second)
    /\ starts_with_10(third)
    /\ starts_with_10(fourth)

(* ---------------- char::from_u32 ---------------- *)
IsScalar(v) == v \in 0..1114111 /\ ~(v \in 55296..57343)

char_from_u32(v) == IF IsScalar(v) THEN Some(v) ELSE None

(* ---------------- Iterator::next for StringStream ---------------- *)
\* A stream state is [pos, fails]; every operator returns the state it leaves.
Stream == [pos |-> pos, fails |-> fails]

\* self.bytes.next().and_then(|x| x.ok()): a failed read and the end of the
\* source both give None; only a delivered byte moves the cursor.
next_byte(s) ==
    IF s.pos \in s.fails
    THEN [b |-> None, s |-> [s EXCEPT !.fails = @ \ {s.pos}]]
    ELSE IF s.pos < Len(src)
    THEN [b |-> Some(src[s.pos + 1]), s |-> [s EXCEPT !.pos = @ + 1]]
    ELSE [b |-> None, s |-> s]

\* decode_two keeping only 4 low bits of the lead byte
decode_two_lo4(first, second) ==
    char_from_u32(BitOr(Shl(lo(first, 4), 6), lo(second, 6)))

decode_two(first, second) ==
    char_from_u32(BitOr(Shl(lo(first, 5), 6), lo(second, 6)))

\* decode_three handing out the assembled value without char::from_u32
decode_three_unchecked(first, second, third) ==
    Some(BitOr(BitOr(Shl(lo(first, 4), 12), Shl(lo(second, 6), 6)), lo(third, 6)))

decode_three(first, second, third) ==
    char_from_u32(BitOr(BitOr(Shl(lo(first, 4), 12), Shl(lo(second, 6), 6)),
                        lo(third, 6)))

decode_four(first, second, third, fourth) ==
    char_from_u32(BitOr(BitOr(BitOr(Shl(lo(first, 3), 18), Shl(lo(second, 6), 12)),
                              Shl(lo(third, 6), 6)),
                        lo(fourth, 6)))

next_fourth(first, second, third, s) ==
    LET r == next_byte(s) IN
    IF ~r.b.some THEN [val |-> None, s |-> r.s]
    ELSE IF is_four_bytes(first, second, third, r.b.v)
    THEN [val |-> decode_four(first, second, third, r.b.v), s |-> r.s]
    ELSE [val |-> None, s |-> r.s]

next_third(first, second, s) ==
    LET r == next_byte(s) IN
    IF ~r.b.some THEN [val |-> None, s |-> r.s]
    ELSE IF is_three_bytes(first, second, r.b.v)
    THEN [val |-> decode_three(first, second, r.b.v), s |-> r.s]
    ELSE next_fourth(first, second, r.b.v, r.s)

\* next_second returning the lead byte as a scalar when the source ends
next_second_partial(first, s) ==
    LET r == next_byte(s) IN
    IF ~r.b.some THEN [val |-> char_from_u32(first), s |-> r.s]
    ELSE IF is_two_bytes(first, r.b.v)
    THEN [val |-> decode_two(first, r.b.v), s |-> r.s]
    ELSE next_third(first, r.b.v, r.s)

\* next_second giving up at a second byte that is not a continuation byte
next_second_stop(first, s) ==
    LET r == next_byte(s) IN
    IF ~r.b.some THEN [val |-> None, s |-> r.s]
    ELSE IF ~starts_with_10(r.b.v) THEN [val |-> None, s |-> r.s]
    ELSE IF is_two_bytes(first, r.b.v)
    THEN [val |-> decode_two(first, r.b.v), s |-> r.s]
    ELSE next_third(first, r.b.v, r.s)

next_second(first, s) ==
    LET r == next_byte(s) IN
    IF ~r.b.some THEN [val |-> None, s |-> r.s]
    ELSE IF is_two_bytes(first, r.b.v)
    THEN [val |-> decode_two(first, r.b.v), s |-> r.s]
    ELSE next_third(first, r.b.v, r.s)

\* next pulling a look-ahead byte after an ASCII byte
next_ascii_peek(s) ==
    LET r == next_byte(s) IN
    IF ~r.b.some THEN [val |-> None, s |-> r.s]
    ELSE IF is_ascii(r.b.v)
    THEN [val |-> char_from_u32(r.b.v), s |-> next_byte(r.s).s]
    ELSE next_second(r.b.v, r.s)

next(s) ==
    LET r == next_byte(s) IN
    IF ~r.b.some THEN [val |-> None, s |-> r.s]
    ELSE IF is_ascii(r.b.v)
    THEN [val |-> char_from_u32(r.b.v), s |-> r.s]
    ELSE next_second(r.b.v, r.s)

(* ---------------- next_line ---------------- *)
\* line_iter leaving the LF terminator in the line
line_iter_keep_lf(s, b) ==
    LET r == next(s) IN
    IF ~r.val.some THEN [s |-> r.s, buf |-> b, brk |-> TRUE]
    ELSE IF r.val.v = CR
    THEN LET look == next(r.s) IN
         IF look.val = Some(LF)
         THEN [s |-> look.s, buf |-> b, brk |-> TRUE]
         ELSE [s |-> look.s, buf |-> Append(b, r.val.v), brk |-> FALSE]
    ELSE IF r.val.v = LF
    THEN [s |-> r.s, buf |-> Append(b, r.val.v), brk |-> TRUE]
    ELSE [s |-> r.s, buf |-> Append(b, r.val.v), brk |-> FALSE]

\* line_iter dropping a CR that is not followed by LF
line_iter_drop_cr(s, b) ==
    LET r == next(s) IN
    IF ~r.val.some THEN [s |-> r.s, buf |-> b, brk |-> TRUE]
    ELSE IF r.val.v = CR
    THEN LET look == next(r.s) IN
         IF look.val = Some(LF)
         THEN [s |-> look.s, buf |-> b, brk |-> TRUE]
         ELSE [s |-> look.s, buf |-> b, brk |-> FALSE]
    ELSE IF r.val.v = LF
    THEN [s |-> r.s, buf |-> b, brk |-> TRUE]
    ELSE [s |-> r.s, buf |-> Append(b, r.val.v), brk |-> FALSE]

\* One pass through the body of `while let Some(ch) = self.next()`;
\* brk is TRUE when the loop is left (by break or by the failed pattern).
\* line_iter appending the look-ahead scalar after a lone CR
line_iter_push_look(s, b) ==
    LET r == next(s) IN
    IF ~r.val.some THEN [s |-> r.s, buf |-> b, brk |-> TRUE]
    ELSE IF r.val.v = CR
    THEN LET look == next(r.s) IN
         IF look.val = Some(LF)
         THEN [s |-> look.s, buf |-> b, brk |-> TRUE]
         ELSE [s |-> look.s,
               buf |-> IF look.val.some THEN b \o <<r.val.v, look.val.v>>
                       ELSE Append(b, r.val.v),
               brk |-> FALSE]
    ELSE IF r.val.v = LF
    THEN [s |-> r.s, buf |-> b, brk |-> TRUE]
    ELSE [s |-> r.s, buf |-> Append(b, r.val.v), brk |-> FALSE]

line_iter(s, b) ==
    LET r == next(s) IN
    IF ~r.val.some THEN [s |-> r.s, buf |-> b, brk |-> TRUE]
    ELSE IF r.val.v = CR
    THEN LET look == next(r.s) IN
         IF look.val = Some(LF)
         THEN [s |-> look.s, buf |-> b, brk |-> TRUE]
         ELSE [s |-> look.s, buf |-> Append(b, r.val.v), brk |-> FALSE]
    ELSE IF r.val.v = LF
    THEN [s |-> r.s, buf |-> b, brk |-> TRUE]
    ELSE [s |-> r.s, buf |-> Append(b, r.val.v), brk |-> FALSE]

line_ret(b) == IF b # <<>> THEN Some(b) ELSE NoLine

RECURSIVE line_loop(_, _)
line_loop(s, b) ==
    LET it == line_iter(s, b) IN
    IF it.brk THEN [s |-> it.s, buf |-> it.buf] ELSE line_loop(it.s, it.buf)

next_line(s) ==
    LET r == line_loop(s, <<>>) IN [val |-> line_ret(r.buf), s |-> r.s]

\* tests::next_line_test::get_lines: call next_line() until it returns None.
RECURSIVE get_lines(_)
get_lines(s) ==
    LET r == next_line(s) IN
    IF r.val.some THEN <<r.val.v>> \o get_lines(r.s) ELSE <<>>

(* ---------------- Byte sources ---------------- *)
MaxLen == 3        \* longest source built from RawBytes
MaxLines == 2      \* most lines in a generated text
MaxCalls == 3      \* most calls made on one stream
MaxScalars == 2   \* most scalars in a generated string
MaxFaultPos == 0   \* last position at which a read failure is injected

\* The UTF-8 encoding of a scalar, as the compiler lays out a str literal.
Encode(c) ==
    IF c < 128 THEN <<c>>
    ELSE IF c < 2048 THEN <<192 + (c \div 64), 128 + (c % 64)>>
    ELSE IF c < 65536
    THEN <<224 + (c \div 4096), 128 + ((c \div 64) % 64), 128 + (c % 64)>>
    ELSE <<240 + (c \div 262144), 128 + ((c \div 4096) % 64),
           128 + ((c \div 64) % 64), 128 + (c % 64)>>

RECURSIVE EncodeStr(_)
EncodeStr(str) ==
    IF str = <<>> THEN <<>> ELSE Encode(Head(str)) \o EncodeStr(Tail(str))

\* U+0000, LF, CR, 'A', U+007F | U+0080, U+01B1, U+07FF | U+0800, U+2713,
\* U+D7FF, U+E000, U+FFFF | U+10000, U+1F609, U+10FFFF
Scalars == {0, 10, 13, 65, 127, 128, 433, 2047, 2048, 10003, 55295, 57344,
            65535, 65536, 128521, 1114111}

\* "hi" and U+01B1 U+2713: lines without CR or LF
LinePool == {<<104, 105>>, <<433, 10003>>}
Terminators == {"lf", "crlf", "none"}

TermBytes(term) ==
    IF term = "lf" THEN <<LF>> ELSE IF term = "crlf" THEN <<CR, LF>> ELSE <<>>

\* A text is a sequence of [line, term]; only the last line may be unterminated.
Texts ==
    UNION {{t \in [1..n -> [line : LinePool, term : Terminators]] :
               \A i \in 1..(n - 1) : t[i].term # "none"} : n \in 1..MaxLines}

RECURSIVE TextBytes(_)
TextBytes(t) ==
    IF t = <<>> THEN <<>>
    ELSE EncodeStr(Head(t).line) \o TermBytes(Head(t).term) \o TextBytes(Tail(t))

\* Proper prefixes of multi-byte encodings.
Truncated ==
    UNION {{SubSeq(Encode(c), 1, k) : k \in 1..(Len(Encode(c)) - 1)} : c \in Scalars}

\* 'A', LF, CR, a continuation byte and the three-byte lead ED
RawBytes == {65, 10, 13, 160, 237}
RawSources == UNION {[1..n -> RawBytes] : n \in 0..MaxLen}

\* "a\rb"; a surrogate followed by 'A'; an invalid lead followed by "AAAB"
\* and a four-byte pattern above U+10FFFF
ExtraSources ==
    {<<97, 13, 98>>, <<237, 160, 128, 65>>, <<255, 65, 65, 65, 66>>,
     <<244, 160, 160, 160>>}

\* 'A', U+01B1, U+2713, U+1F609: one scalar of each encoded length
ScalarPool == {65, 433, 10003, 128521}
ScalarStrings == UNION {[1..n -> ScalarPool] : n \in 1..MaxScalars}

Sources ==
    {Encode(c) : c \in Scalars} \cup {TextBytes(t) : t \in Texts}
        \cup {EncodeStr(str) : str \in ScalarStrings}
        \cup Truncated \cup RawSources \cup ExtraSources

FaultSets(bytes) ==
    {{}} \cup {{k} : k \in {j \in 0..MaxFaultPos : j < Len(bytes)}}

(* ---------------- The state machine ---------------- *)
Init ==
    /\ src \in Sources
    /\ fails0 \in FaultSets(src)
    /\ pos = 0
    /\ fails = fails0
    /\ owner = "stream"
    /\ pc = "idle"
    /\ cur = "none"
    /\ from = [pos |-> 0, fails |-> fails0]
    /\ buf = <<>>
    /\ trace = <<>>
    /\ vec = [data |-> <<>>, width |-> 0, height |-> 0]
    /\ last = "none"
    /\ wide = TRUE

\* stream.next()
CallNext ==
    /\ pc = "idle" /\ owner = "stream" /\ Len(trace) < MaxCalls
    /\ LET r == next(Stream) IN
        /\ pos' = r.s.pos
        /\ fails' = r.s.fails
        /\ trace' = Append(trace, [op |-> "next", from |-> Stream,
                                    ret |-> r.val, to |-> r.s])
    /\ UNCHANGED <<vec, last, wide, src, fails0, owner, pc, cur, from, buf>>

\* entry of next_line(): let mut buf = String::new()
EnterNextLine(op) ==
    /\ pc' = "loop"
    /\ cur' = op
    /\ from' = Stream
    /\ buf' = <<>>
    /\ UNCHANGED <<vec, last, wide, src, fails0, pos, fails, owner, trace>>

\* stream.next_line()
CallNextLine ==
    /\ pc = "idle" /\ owner = "stream" /\ Len(trace) < MaxCalls
    /\ EnterNextLine("next_line")

\* stream.lines(): the stream is moved into the returned iterator
CallLines ==
    /\ pc = "idle" /\ owner = "stream"
    /\ owner' = "lines"
    /\ UNCHANGED <<vec, last, wide, src, fails0, pos, fails, pc, cur, from, buf, trace>>

\* LinesNext with a line buffer that outlives the call
LinesNext_stale_buf ==
    /\ pc = "idle" /\ owner = "lines" /\ Len(trace) < MaxCalls
    /\ pc' = "loop"
    /\ cur' = "lines_next"
    /\ from' = Stream
    /\ UNCHANGED <<vec, last, wide, src, fails0, pos, fails, owner, trace, buf>>

\* advancing the iterator: from_fn's closure calls self.next_line()
LinesNext ==
    /\ pc = "idle" /\ owner = "lines" /\ Len(trace) < MaxCalls
    /\ EnterNextLine("lines_next")

\* one pass of the while-let loop of next_line()
LineIter ==
    /\ pc = "loop"
    /\ LET it == line_iter(Stream, buf) IN
        /\ pos' = it.s.pos
        /\ fails' = it.s.fails
        /\ buf' = it.buf
        /\ pc' = IF it.brk THEN "after" ELSE "loop"
    /\ UNCHANGED <<vec, last, wide, src, fails0, owner, cur, from, trace>>

\* the tail of next_line(): Some(buf) unless buf is empty
LineReturn ==
    /\ pc = "after"
    /\ pc' = "idle"
    /\ trace' = Append(trace, [op |-> cur, from |-> from,
                                ret |-> line_ret(buf), to |-> Stream])
    /\ UNCHANGED <<vec, last, wide, src, fails0, pos, fails, owner, cur, from, buf>>

Next ==
    \/ CallNext
    \/ CallNextLine
    \/ CallLines
    \/ LinesNext
    \/ LineIter
    \/ LineReturn

Spec == Init /\ [][Next]_vars

TypeOK ==
    /\ pos \in 0..Len(src)
    /\ fails \subseteq fails0
    /\ owner \in {"stream", "lines"}
    /\ pc \in {"idle", "loop", "after"}
    /\ Len(trace) <= MaxCalls

(* ---------------- Properties ---------------- *)
OpsAre(op) == \A i \in 1..Len(trace) : trace[i].op = op

\* C1: a source holding exactly the canonical encoding of a scalar c gives
\* Some(c) on the first next() and None on the second.
C1_ScalarRoundTrip ==
    (fails0 = {} /\ trace # <<>> /\ OpsAre("next")) =>
        \A c \in Scalars :
            src = Encode(c) =>
                /\ trace[1].ret = Some(c)
                /\ Len(trace) >= 2 => trace[2].ret = None

C1_Witness ==
    /\ src = Encode(128521) /\ fails0 = {} /\ OpsAre("next") /\ Len(trace) = 2
    /\ trace[1].ret = Some(128521) /\ trace[1].to.pos = 4
    /\ trace[2].ret = None

\* C2: for a text of non-empty lines without CR or LF, joined by LF or CRLF,
\* repeated next_line() returns the lines in order, terminators stripped,
\* then None, with or without a terminator after the last line.
C2_LinesInOrder ==
    (fails0 = {} /\ trace # <<>> /\ OpsAre("next_line")) =>
        \A t \in Texts :
            src = TextBytes(t) =>
                \A i \in 1..Len(trace) :
                    /\ i <= Len(t) => trace[i].ret = Some(t[i].line)
                    /\ i = Len(t) + 1 => trace[i].ret = NoLine

C2_Witness ==
    \E t \in Texts :
        /\ Len(t) = 2 /\ t[1].term = "crlf" /\ t[2].term = "lf"
        /\ src = TextBytes(t) /\ fails0 = {} /\ OpsAre("next_line")
        /\ Len(trace) = 3
        /\ trace[1].ret = Some(t[1].line)
        /\ trace[2].ret = Some(t[2].line)
        /\ trace[3].ret = NoLine

\* C3: once next() has returned None, every later next() and next_line()
\* on the same stream returns None.
C3_NoneIsFinal ==
    \A i, j \in 1..Len(trace) :
        (i < j /\ trace[i].op = "next" /\ ~trace[i].ret.some /\ trace[j].op # "lines_next")
            => ~trace[j].ret.some

\* C4 as stated: on "a\rb" the first next_line() returns "a", having
\* consumed and discarded 'b'.
C4_LoneCRGivesA ==
    (src = <<97, 13, 98>> /\ fails0 = {} /\ Len(trace) >= 1 /\ trace[1].op = "next_line")
        => (trace[1].ret = Some(<<97>>) /\ trace[1].to.pos = 3)

\* C4 amended: on "a\rb" the first next_line() returns "a\r": the CR is kept,
\* the look-ahead 'b' is consumed and discarded.
C4_LoneCRGivesACR ==
    (src = <<97, 13, 98>> /\ fails0 = {} /\ Len(trace) >= 1 /\ trace[1].op = "next_line")
        => (trace[1].ret = Some(<<97, 13>>) /\ trace[1].to.pos = 3)

C4_Witness ==
    /\ src = <<97, 13, 98>> /\ fails0 = {} /\ Len(trace) = 1
    /\ trace[1].op = "next_line" /\ trace[1].ret = Some(<<97, 13>>)
    /\ pos = 3

\* C5: collecting lines() gives the same lines as next_line() called on a
\* stream over an equal source until it first returns None.
C5_LinesEqualsNextLine ==
    (owner = "lines" /\ trace # <<>> /\ OpsAre("lines_next")) =>
        LET expected == get_lines([pos |-> 0, fails |-> fails0]) IN
        \A i \in 1..Len(trace) :
            (\A j \in 1..(i - 1) : trace[j].ret.some) =>
                IF i <= Len(expected)
                THEN trace[i].ret = Some(expected[i])
                ELSE trace[i].ret = NoLine

C5_Witness ==
    /\ owner = "lines" /\ OpsAre("lines_next") /\ Len(trace) = 3
    /\ src = <<104, 105, 13, 10, 198, 177, 226, 156, 147>>
    /\ trace[1].ret = Some(<<104, 105>>)
    /\ trace[2].ret = Some(<<433, 10003>>)
    /\ trace[3].ret = NoLine
    /\ Len(get_lines([pos |-> 0, fails |-> fails0])) = 2

\* C6: a source holding only a proper prefix of a multi-byte encoding makes
\* the first next() return None; an empty source makes next() and
\* next_line() return None at once.
C6_TruncatedIsNone ==
    /\ (fails0 = {} /\ Len(trace) >= 1 /\ trace[1].op = "next" /\ src \in Truncated)
           => (trace[1].ret = None /\ trace[1].to.pos = Len(src))
    /\ (src = <<>> /\ Len(trace) >= 1)
           => (~trace[1].ret.some /\ trace[1].to.pos = 0)

C6_Witness ==
    /\ src = <<240, 159, 152>> /\ fails0 = {} /\ Len(trace) >= 1
    /\ trace[1].op = "next" /\ trace[1].ret = None

\* The bytes a completed call pulled from the source.
Pulled(e) == SubSeq(src, e.from.pos + 1, e.to.pos)

\* The value the bytes p carry when they match a 1- to 4-byte pattern, else -1.
PatternValue(p) ==
    IF Len(p) = 1 /\ p[1] < 128 THEN p[1]
    ELSE IF Len(p) = 2 /\ p[1] \in 192..223 /\ p[2] \in 128..191
    THEN (p[1] - 192) * 64 + (p[2] - 128)
    ELSE IF Len(p) = 3 /\ p[1] \in 224..239 /\ p[2] \in 128..191 /\ p[3] \in 128..191
    THEN (p[1] - 224) * 4096 + (p[2] - 128) * 64 + (p[3] - 128)
    ELSE IF /\ Len(p) = 4 /\ p[1] \in 240..247 /\ p[2] \in 128..191
            /\ p[3] \in 128..191 /\ p[4] \in 128..191
    THEN (p[1] - 240) * 262144 + (p[2] - 128) * 4096 + (p[3] - 128) * 64 + (p[4] - 128)
    ELSE -1

LegalScalar(v) == (0 <= v /\ v < 55296) \/ (57343 < v /\ v <= 1114111)

\* C7: when the pulled bytes match a pattern but the assembled value is a
\* surrogate or exceeds 0x10FFFF, next() returns None; every value next()
\* returns is a legal Unicode scalar.
C7_OnlyLegalScalars ==
    \A i \in 1..Len(trace) :
        trace[i].op = "next" =>
            /\ trace[i].ret.some => LegalScalar(trace[i].ret.v)
            /\ (PatternValue(Pulled(trace[i])) # -1
                    /\ ~LegalScalar(PatternValue(Pulled(trace[i]))))
                   => trace[i].ret = None

C7_Witness ==
    \E i \in 1..Len(trace) :
        /\ trace[i].op = "next" /\ trace[i].from.fails = {}
        /\ Pulled(trace[i]) = <<237, 160, 128>>
        /\ PatternValue(Pulled(trace[i])) = 55296
        /\ trace[i].ret = None

\* C8: next_line() returns None only when the first scalar pull of that
\* call yields None.
C8_NoneOnlyAtEnd ==
    \A i \in 1..Len(trace) :
        (trace[i].op = "next_line" /\ ~trace[i].ret.some)
            => ~next(trace[i].from).val.some

\* C9: once the iterator returned by lines() has returned None, every later
\* advance returns None.
C9_LinesStayExhausted ==
    \A i, j \in 1..Len(trace) :
        (i < j /\ trace[i].op = "lines_next" /\ ~trace[i].ret.some)
            => ~trace[j].ret.some

\* C10: in next_line(), a CR followed by LF is consumed with it as one
\* terminator and neither is appended; a CR followed by anything else is
\* appended, the look-ahead scalar is consumed and not appended, and the
\* same line goes on with the scalar after it.
C10_CRBranch ==
    [][(pc = "loop" /\ next(Stream).val = Some(CR)) =>
          LET look == next(next(Stream).s) IN
          /\ pos' = look.s.pos
          /\ IF look.val = Some(LF)
             THEN buf' = buf /\ pc' = "after"
             ELSE buf' = Append(buf, CR) /\ pc' = "loop"]_vars

C10_Witness ==
    /\ pc = "loop" /\ fails0 = {}
    /\ src = <<97, 13, 98>> /\ pos = 3
    /\ buf = <<97, 13>>

\* C11: a next() call pulls at most 4 bytes and the cursor never moves
\* back; a call returning a scalar decoded from a k-byte sequence pulled
\* exactly those k bytes; so on the concatenation of the canonical encodings
\* of c1..cn the next() calls return c1, ..., cn in order and then None.
C11_State ==
    /\ \A i \in 1..Len(trace) :
          trace[i].op = "next" =>
              /\ trace[i].to.pos - trace[i].from.pos \in 0..4
              /\ trace[i].ret.some => PatternValue(Pulled(trace[i])) = trace[i].ret.v
    /\ (fails0 = {} /\ trace # <<>> /\ OpsAre("next")) =>
          \A str \in ScalarStrings :
              src = EncodeStr(str) =>
                  \A i \in 1..Len(trace) :
                      /\ i <= Len(str) => trace[i].ret = Some(str[i])
                      /\ i = Len(str) + 1 => trace[i].ret = None

C11_CursorAndOrder == [](C11_State) /\ [][pos' >= pos]_vars

C11_Witness ==
    /\ src = <<226, 156, 147, 240, 159, 152, 137>> /\ fails0 = {}
    /\ OpsAre("next") /\ Len(trace) = 3 /\ pos = 7
    /\ trace[1].ret = Some(10003) /\ trace[1].to.pos = 3
    /\ trace[2].ret = Some(128521) /\ trace[2].to.pos = 7
    /\ trace[3].ret = None

\* The up to 4 bytes in front of the cursor when the call e was made.
Ahead(e) ==
    SubSeq(src, e.from.pos + 1,
           IF e.from.pos + 4 <= Len(src) THEN e.from.pos + 4 ELSE Len(src))

\* The call e starts at a non-ASCII byte and no prefix of the bytes ahead
\* matches the 2-, 3- or 4-byte pattern.
NoPatternAhead(e) ==
    /\ Ahead(e) # <<>>
    /\ Ahead(e)[1] >= 128
    /\ \A k \in 2..Len(Ahead(e)) : PatternValue(SubSeq(Ahead(e), 1, k)) = -1

\* C12: a next() call whose first byte is not ASCII and whose bytes match
\* none of the 2-, 3- or 4-byte patterns consumes min(4, bytes remaining)
\* bytes and returns None: the bytes after the offending one are discarded.
C12_FailedCallPullsFour ==
    \A i \in 1..Len(trace) :
        (trace[i].op = "next" /\ trace[i].from.fails = {} /\ NoPatternAhead(trace[i]))
            => /\ trace[i].ret = None
               /\ Pulled(trace[i]) = Ahead(trace[i])

C12_Witness ==
    /\ src = <<255, 65, 65, 65, 66>> /\ fails0 = {} /\ Len(trace) = 2
    /\ OpsAre("next")
    /\ NoPatternAhead(trace[1])
    /\ trace[1].ret = None /\ trace[1].to.pos = 4
    /\ trace[2].ret = Some(66)

(* ---------------- Vec2d (src/vec2d.rs) ---------------- *)
MaxDim == 2     \* largest width, height and coordinate passed to a call
MaxItems == 4   \* longest slice passed in, and the length push stops growing at

Items == {0, 1}
Default == 0

strVars == <<src, fails0, pos, fails, owner, pc, cur, from, buf, trace>>

Take(s, n) == SubSeq(s, 1, IF n < Len(s) THEN n ELSE Len(s))
Slices == UNION {[1..n -> Items] : n \in 0..MaxItems}

Ok(x) == [ok |-> TRUE, v |-> x]
Err == [ok |-> FALSE, v |-> [data |-> <<>>, width |-> 0, height |-> 0]]

calc_size(width, height) == width * height

size(v) == v.width * v.height

len(v) == Len(v.data)

get_index(v, x, y) == (y * v.width) + x

with_capacity(width, height) == [data |-> <<>>, width |-> width, height |-> height]

new(width, height) == [data |-> <<>>, width |-> width, height |-> height]

new_with(width, height, val) ==
    [data |-> [i \in 1..calc_size(width, height) |-> val],
     width |-> width, height |-> height]

clone_from_slice(width, height, slice) ==
    [data |-> Take(slice, calc_size(width, height)), width |-> width, height |-> height]

\* the for loop of from_iter over iter.enumerate(), i items already taken
RECURSIVE from_iter_loop(_, _, _)
from_iter_loop(this, i, iter) ==
    IF iter = <<>> THEN Ok(this)
    ELSE IF i >= size(this) THEN Err
    ELSE from_iter_loop([this EXCEPT !.data = Append(@, Head(iter))], i + 1, Tail(iter))

from_iter(width, height, iter) == from_iter_loop(with_capacity(width, height), 0, iter)

take_from(width, height, slice) ==
    IF Len(slice) > calc_size(width, height) THEN Err
    ELSE Ok([with_capacity(width, height) EXCEPT !.data = slice])

\* push adding a row only when len() exceeds size()
push_only_beyond(v, item) ==
    [data |-> Append(v.data, item),
     width |-> v.width,
     height |-> IF len(v) > size(v) THEN v.height + 1 ELSE v.height]

push(v, item) ==
    [data |-> Append(v.data, item),
     width |-> v.width,
     height |-> IF len(v) >= size(v) THEN v.height + 1 ELSE v.height]

resize(v, new_width, new_height) ==
    [data |-> IF len(v) > calc_size(new_width, new_height)
              THEN Take(v.data, calc_size(new_width, new_height))
              ELSE v.data,
     width |-> new_width,
     height |-> new_height]

\* while self.len() <= idx { self.push(T::default()) }
RECURSIVE insert_at_fill(_, _)
insert_at_fill(v, idx) ==
    IF len(v) <= idx THEN insert_at_fill(push(v, Default), idx) ELSE v

\* get_index_assert, as reached through self[(x, y)]
get_index_assert_ok(v, x, y) == x < v.width /\ y < v.height

insert_at(v, x, y, val) ==
    LET idx == get_index(v, x, y)
        filled == insert_at_fill(v, idx)
    IN [filled EXCEPT !.data[idx + 1] = val]

StreamIdle ==
    /\ src = <<>> /\ fails0 = {} /\ pos = 0 /\ fails = {}
    /\ owner = "stream" /\ pc = "idle" /\ cur = "none"
    /\ from = [pos |-> 0, fails |-> {}] /\ buf = <<>> /\ trace = <<>>

\* the constructors: new, new_with, clone_from_slice, from_iter, take_from
VecInit ==
    /\ StreamIdle
    /\ \E width \in 0..MaxDim, height \in 0..MaxDim, slice \in Slices :
          /\ \/ vec = new(width, height) /\ last = "new"
             \/ \E val \in Items : vec = new_with(width, height, val) /\ last = "new_with"
             \/ vec = clone_from_slice(width, height, slice) /\ last = "clone_from_slice"
             \/ /\ from_iter(width, height, slice).ok
                /\ vec = from_iter(width, height, slice).v /\ last = "from_iter"
             \/ /\ take_from(width, height, slice).ok
                /\ vec = take_from(width, height, slice).v /\ last = "take_from"
          /\ wide = (width >= 1)

Push ==
    /\ len(vec) < MaxItems
    /\ \E item \in Items : vec' = push(vec, item)
    /\ last' = "push"
    /\ UNCHANGED <<wide, strVars>>

\* insert_at with x in range; an x >= width panics in index_mut
InsertAt ==
    \E x \in 0..MaxDim, y \in 0..MaxDim, val \in Items :
        /\ x < vec.width
        /\ get_index(vec, x, y) < MaxItems
        /\ get_index_assert_ok(insert_at_fill(vec, get_index(vec, x, y)), x, y)
        /\ vec' = insert_at(vec, x, y, val)
        /\ last' = "insert_at"
        /\ UNCHANGED <<wide, strVars>>

Resize ==
    \E new_width \in 0..MaxDim, new_height \in 0..MaxDim :
        /\ vec' = resize(vec, new_width, new_height)
        /\ last' = "resize"
        /\ wide' = (wide /\ new_width >= 1)
        /\ UNCHANGED strVars

VecNext ==
    \/ Push
    \/ InsertAt
    \/ Resize

VecSpec == VecInit /\ [][VecNext]_vars

\* C13: for a Vec2d built with width >= 1 and then changed by push,
\* insert_at (x < width) and resize (to a width >= 1), len() <= size()
\* always; push raises height by exactly one when len() = size() and leaves
\* width and height as they are otherwise.
C13_LenWithinSize == wide => len(vec) <= size(vec)

C13_PushGrowsWhenFull ==
    [](C13_LenWithinSize)
        /\ [][(wide /\ last' = "push") =>
                 /\ vec'.width = vec.width
                 /\ vec'.height = IF len(vec) = size(vec)
                                   THEN vec.height + 1 ELSE vec.height]_vars

C13_Witness ==
    /\ wide /\ last = "push"
    /\ vec.width = 1 /\ vec.height = 3 /\ len(vec) = 3

====
